---- MODULE Spec2Model ----
(***************************************************************************)
(* Model of the MATURA UI generation engine (class UIGenerator):           *)
(* callGeminiAPI, extractCodeFromResponse, generateEnhancedFallbackUI,     *)
(* buildUIPrompt, generateUI, saveGeneratedUI.                             *)
(*                                                                         *)
(* Text is modelled as a sequence of one-character strings, so that the    *)
(* regular expressions and String.prototype.trim act on characters as     *)
(* they do in the program.                                                 *)
(***************************************************************************)
EXTENDS Integers, Sequences, FiniteSets, TLC

VARIABLES env, apiKey, dirExists, file, writer, inv, val

vars == <<env, apiKey, dirExists, file, writer, inv, val>>

-----------------------------------------------------------------------------
(* Characters and elementary string operations                             *)

\* The backtick character (a TLA+ string cannot hold one).
BT == "BACKTICK"
NL == "\n"
SP == " "

Fence == <<BT, BT, BT>>

typescript == <<"t", "y", "p", "e", "s", "c", "r", "i", "p", "t">>
tsx == <<"t", "s", "x">>
ts == <<"t", "s">>

\* The alternation (?:typescript|tsx|ts), in the order the engine tries it.
LangTags == <<typescript, tsx, ts>>

\* Characters String.prototype.trim removes (those the model's texts use).
WhiteSpace == {SP, NL, "\t", "\r"}

SetMin(S) == CHOOSE x \in S : \A y \in S : x <= y

\* p occurs in s at index i.
StartsWithAt(s, i, p) ==
    /\ i >= 1
    /\ i + Len(p) - 1 <= Len(s)
    /\ \A k \in 1..Len(p) : s[i + k - 1] = p[k]

\* String.prototype.includes
Includes(s, p) == \E i \in 1..(Len(s) + 1) : StartsWithAt(s, i, p)

\* String.prototype.trim
Trim(s) ==
    IF \A i \in 1..Len(s) : s[i] \in WhiteSpace THEN <<>>
    ELSE SubSeq(s,
                CHOOSE i \in 1..Len(s) :
                    s[i] \notin WhiteSpace /\ \A j \in 1..(i - 1) : s[j] \in WhiteSpace,
                CHOOSE i \in 1..Len(s) :
                    s[i] \notin WhiteSpace /\ \A j \in (i + 1)..Len(s) : s[j] \in WhiteSpace)

-----------------------------------------------------------------------------
(* extractCodeFromResponse                                                 *)

\* Least index j >= from at which "\n```" occurs, 0 if there is none: where
\* the lazy ([\s\S]*?) of codeBlockRegex stops.
ClosingAt(s, from) ==
    LET js == {j \in from..Len(s) : StartsWithAt(s, j, <<NL>> \o Fence)}
    IN  IF js = {} THEN 0 ELSE SetMin(js)

\* /```(?:typescript|tsx|ts)?\n([\s\S]*?)\n```/ tried at index i: the index of
\* the last character of the match, 0 if it does not match there. The optional
\* group is tried alternative by alternative and then as empty (backtracking).
codeBlockRegexEnd(s, i) ==
    IF ~StartsWithAt(s, i, Fence) THEN 0
    ELSE LET choices == LangTags \o << <<>> >>
             content(k) == i + 3 + Len(choices[k]) + 1
             opened == {k \in 1..Len(choices) :
                           StartsWithAt(s, i + 3, choices[k] \o <<NL>>)}
             ok == {k \in opened : ClosingAt(s, content(k)) # 0}
         IN  IF ok = {} THEN 0 ELSE ClosingAt(s, content(SetMin(ok))) + 3

\* response.match(codeBlockRegex) with the g flag: every match, left to right,
\* each search resuming after the previous match; <<>> stands for null.
RECURSIVE MatchAll(_, _)
MatchAll(s, from) ==
    IF from > Len(s) THEN <<>>
    ELSE LET e == codeBlockRegexEnd(s, from)
         IN  IF e = 0 THEN MatchAll(s, from + 1)
             ELSE <<SubSeq(s, from, e)>> \o MatchAll(s, e + 1)

\* Length of what (?:typescript|tsx|ts)? consumes at index i (greedy, first
\* alternative that matches; nothing follows that could force backtracking).
TagLenAt(s, i) ==
    LET ok == {k \in 1..Len(LangTags) : StartsWithAt(s, i, LangTags[k])}
    IN  IF ok = {} THEN 0 ELSE Len(LangTags[SetMin(ok)])

\* StripFences with the language tags left out of the pattern: /```\n?/g.
RECURSIVE StripFencesNoTag(_, _)
StripFencesNoTag(s, i) ==
    IF i > Len(s) THEN <<>>
    ELSE IF StartsWithAt(s, i, Fence)
         THEN StripFencesNoTag(s, IF StartsWithAt(s, i + 3, <<NL>>) THEN i + 4 ELSE i + 3)
         ELSE <<s[i]>> \o StripFencesNoTag(s, i + 1)

\* StripFences without the g flag: only the first fence is removed.
StripFencesFirstOnly(s, i) ==
    LET M == {k \in i..Len(s) : StartsWithAt(s, k, Fence)}
    IN  IF M = {} THEN SubSeq(s, i, Len(s))
        ELSE LET k == SetMin(M)
                 j == k + 3 + TagLenAt(s, k + 3)
             IN  SubSeq(s, i, k - 1)
                   \o SubSeq(s, IF StartsWithAt(s, j, <<NL>>) THEN j + 1 ELSE j, Len(s))

\* .replace(/```(?:typescript|tsx|ts)?\n?/g, ''), scanning from index i.
RECURSIVE StripFences(_, _)
StripFences(s, i) ==
    IF i > Len(s) THEN <<>>
    ELSE IF StartsWithAt(s, i, Fence)
         THEN LET j == i + 3 + TagLenAt(s, i + 3)
              IN  StripFences(s, IF StartsWithAt(s, j, <<NL>>) THEN j + 1 ELSE j)
         ELSE <<s[i]>> \o StripFences(s, i + 1)

\* .replace(/\n```$/g, '')
StripClosing(s) ==
    IF Len(s) >= 4 /\ StartsWithAt(s, Len(s) - 3, <<NL>> \o Fence)
    THEN SubSeq(s, 1, Len(s) - 4)
    ELSE s

\* extractCodeFromResponse taking the last match instead of matches[0].
extractLastMatch(response) ==
    LET matches == MatchAll(response, 1)
    IN  IF Len(matches) > 0
        THEN Trim(StripClosing(StripFences(matches[Len(matches)], 1)))
        ELSE Trim(response)

\* extractCodeFromResponse returning the response as it is when nothing matches.
extractNoTrim(response) ==
    LET matches == MatchAll(response, 1)
    IN  IF Len(matches) > 0
        THEN Trim(StripClosing(StripFences(matches[1], 1)))
        ELSE response

extractCodeFromResponse(response) ==
    LET matches == MatchAll(response, 1)
    IN  IF Len(matches) > 0
        THEN Trim(StripClosing(StripFences(matches[1], 1)))
        ELSE Trim(response)

-----------------------------------------------------------------------------
(* Values                                                                  *)

\* An optional value is a sequence of length 0 (absent) or 1 (present).
None == <<>>
Some(v) == <<v>>

Undefined == "<undefined>"
Null == "<null>"

\* JavaScript falsiness of a string-or-null value.
Falsy(v) == v \in {Undefined, Null, ""}

EnvKey == "KEY-ENV"
OptKey == "KEY-OPT"

\* Values of process.env.GEMINI_API_KEY.
EnvValues == {Undefined, "", EnvKey}

\* this.projectRoot, and the paths saveGeneratedUI joins from it.
projectRoot == "/project"
outputDir == <<projectRoot, "app">>
outputPath == outputDir \o <<"GeneratedUI.tsx">>

\* UIGenerationOptions
OptionsSet ==
    [appIdea : {"", "issue tracker"},
     theme : {None, Some("modern"), Some("minimal")},
     features : {None, Some(<<"auth">>)},
     apiKey : {None, Some(OptKey)}]

NoOptions == [appIdea |-> "", theme |-> None, features |-> None, apiKey |-> None]

-----------------------------------------------------------------------------
(* generateEnhancedFallbackUI: the static template, abridged to its first  *)
(* line, the lines that carry the markers validation looks for, and its    *)
(* last line, in the order of the source.                                  *)

UseClientText == <<"'", "u", "s", "e", " ", "c", "l", "i", "e", "n", "t", "'">>
ExportDefaultText ==
    <<"e", "x", "p", "o", "r", "t", " ", "d", "e", "f", "a", "u", "l", "t", " ",
      "f", "u", "n", "c", "t", "i", "o", "n", " ",
      "G", "e", "n", "e", "r", "a", "t", "e", "d", "U", "I">>
UseFuyouStoreText == <<"u", "s", "e", "F", "u", "y", "o", "u", "S", "t", "o", "r", "e">>
OnClickText == <<"o", "n", "C", "l", "i", "c", "k">>
ConsoleLogText == <<"c", "o", "n", "s", "o", "l", "e", ".", "l", "o", "g">>

\* The template without its console.log line.
fallbackWithoutLog ==
    UseClientText \o <<NL>>
      \o <<"i", "m", "p", "o", "r", "t", " ", "{", " ">> \o UseFuyouStoreText
      \o <<" ", "}", NL>>
      \o ExportDefaultText \o <<"(", ")", " ", "{", NL>>
      \o OnClickText \o <<"=", NL>>
      \o <<"}">>

generateEnhancedFallbackUI ==
    UseClientText \o <<NL>>
      \o <<"i", "m", "p", "o", "r", "t", " ", "{", " ">> \o UseFuyouStoreText
      \o <<" ", "}", NL>>
      \o ExportDefaultText \o <<"(", ")", " ", "{", NL>>
      \o ConsoleLogText \o <<"(", NL>>
      \o OnClickText \o <<"=", NL>>
      \o <<"}">>

-----------------------------------------------------------------------------
(* buildUIPrompt                                                           *)

PromptHead == "Generate a complete Next.js 14 App Router React component ... APPLICATION IDEA: "
PromptMid == " REQUIREMENTS: ... 4. Use Tailwind CSS for styling with "
PromptTail == " theme ... Generate the complete component now:"

\* A prompt that also lists the features.
buildUIPromptWithFeatures(appIdea, options) ==
    LET theme == IF options.theme = None THEN "modern" ELSE options.theme[1]
        features == IF options.features = None THEN <<>> ELSE options.features[1]
    IN  <<PromptHead, appIdea, PromptMid, theme, PromptTail>> \o features

\* The template literal: fixed text around ${appIdea} and ${theme}; features
\* is destructured (default []) and not used.
buildUIPrompt(appIdea, options) ==
    LET theme == IF options.theme = None THEN "modern" ELSE options.theme[1]
        features == IF options.features = None THEN <<>> ELSE options.features[1]
    IN  <<PromptHead, appIdea, PromptMid, theme, PromptTail>>

-----------------------------------------------------------------------------
(* callGeminiAPI                                                           *)

maxOutputTokens == 8192
topK == 10

\* The fetch call: the key in the URL's query, the prompt in the body.
GeminiRequest(key, prompt) ==
    [url |-> <<"https://generativelanguage.googleapis.com/v1beta/models/gemini-1.5-flash:generateContent?key=", key>>,
     method |-> "POST",
     prompt |-> prompt,
     maxOutputTokens |-> maxOutputTokens,
     topK |-> topK]

\* The credential test as a comparison with undefined only.
NoCredentialUndefinedOnly(key) == key = Undefined

\* if (!this.apiKey)
NoCredential(key) == Falsy(key)

\* response.ok taken to hold for every status below 500.
ResponseOkBelow500(status) == status < 500

\* response.ok
ResponseOk(status) == status \in 200..299

\* The parsed body, by how much of candidates[0].content.parts[0].text it
\* holds. "unparsable": response.json() rejects. "null": data is null.
\* "nonstring_text": text is a truthy value that is not a string.
MissingShapes ==
    {"no_candidates", "empty_candidates", "no_content", "no_parts",
     "empty_parts", "no_text"}
FailingShapes == {"unparsable", "null", "nonstring_text"} \cup MissingShapes

Body(shape, text) == [shape |-> shape, text |-> text]

\* data.candidates?.[0]?.content?.parts?.[0]?.text || ''
GeneratedContent(data) == IF data.shape = "text" THEN data.text ELSE <<>>

Generated(via, code) == [via |-> via, code |-> code]

\* callGeminiAPI returning the raw text, extractCodeFromResponse left out.
AfterJsonRaw(data) ==
    IF data.shape \in {"unparsable", "null", "nonstring_text"} \/ GeneratedContent(data) = <<>>
    THEN Generated("fallback", generateEnhancedFallbackUI)
    ELSE Generated("model", GeneratedContent(data))

\* Lines 55-68: what callGeminiAPI returns once response.json() has settled
\* with body data; every throw inside the try block lands in the catch.
AfterJson(data) ==
    IF data.shape \in {"unparsable", "null"}
    THEN Generated("fallback", generateEnhancedFallbackUI)
    ELSE IF data.shape = "nonstring_text"
    THEN Generated("fallback", generateEnhancedFallbackUI)
    ELSE IF GeneratedContent(data) = <<>>
    THEN Generated("fallback", generateEnhancedFallbackUI)
    ELSE Generated("model", extractCodeFromResponse(GeneratedContent(data)))

-----------------------------------------------------------------------------
(* saveGeneratedUI                                                         *)

\* What the filesystem does to one saveGeneratedUI call: nothing wrong, or
\* mkdirSync throws, or writeFileSync throws opening the file, or it throws
\* after the file was opened (and so truncated).
FsFaults == {"none", "mkdir", "open", "write"}

Returned(path) == [kind |-> "returned", value |-> path]
Threw(error) == [kind |-> "threw", value |-> <<error>>]
Pending == [kind |-> "none", value |-> <<>>]

\* saveGeneratedUI without the mkdirSync: writing into an absent directory
\* throws.
saveWithoutMkdir(code, dir, f, fault) ==
    IF ~dir
    THEN [dir |-> FALSE, file |-> f, made |-> FALSE, wrote |-> FALSE,
          result |-> Threw("ENOENT: open")]
    ELSE IF fault = "open"
    THEN [dir |-> TRUE, file |-> f, made |-> FALSE, wrote |-> FALSE,
          result |-> Threw("EACCES: open")]
    ELSE IF fault = "write"
    THEN [dir |-> TRUE, file |-> Some(<<>>), made |-> FALSE, wrote |-> TRUE,
          result |-> Threw("ENOSPC: write")]
    ELSE [dir |-> TRUE, file |-> Some(code), made |-> FALSE, wrote |-> TRUE,
          result |-> Returned(outputPath)]

\* A writer that opens the artifact for appending instead of replacing it.
saveAppends(code, dir, f, fault) ==
    IF ~dir /\ fault = "mkdir"
    THEN [dir |-> FALSE, file |-> f, made |-> FALSE, wrote |-> FALSE,
          result |-> Threw("EACCES: mkdir")]
    ELSE IF fault = "open"
    THEN [dir |-> TRUE, file |-> f, made |-> ~dir, wrote |-> FALSE,
          result |-> Threw("EACCES: open")]
    ELSE IF fault = "write"
    THEN [dir |-> TRUE, file |-> IF f = None THEN Some(<<>>) ELSE f,
          made |-> ~dir, wrote |-> TRUE, result |-> Threw("ENOSPC: write")]
    ELSE [dir |-> TRUE,
          file |-> IF f = None THEN Some(code) ELSE Some(f[1] \o code),
          made |-> ~dir, wrote |-> TRUE, result |-> Returned(outputPath)]

\* A writer that calls mkdirSync without the existsSync test and without
\* the recursive option, which throws when the directory is already there.
saveAlwaysMkdir(code, dir, f, fault) ==
    IF dir
    THEN [dir |-> TRUE, file |-> f, made |-> FALSE, wrote |-> FALSE,
          result |-> Threw("EEXIST: mkdir")]
    ELSE IF fault = "mkdir"
    THEN [dir |-> FALSE, file |-> f, made |-> FALSE, wrote |-> FALSE,
          result |-> Threw("EACCES: mkdir")]
    ELSE IF fault = "open"
    THEN [dir |-> TRUE, file |-> f, made |-> TRUE, wrote |-> FALSE,
          result |-> Threw("EACCES: open")]
    ELSE IF fault = "write"
    THEN [dir |-> TRUE, file |-> Some(<<>>), made |-> TRUE, wrote |-> TRUE,
          result |-> Threw("ENOSPC: write")]
    ELSE [dir |-> TRUE, file |-> Some(code), made |-> TRUE, wrote |-> TRUE,
          result |-> Returned(outputPath)]

\* saveGeneratedUI(code) on a filesystem where the output directory exists
\* iff dir and the artifact is f: the filesystem afterwards, whether
\* mkdirSync created the directory (made), whether writeFileSync changed the
\* file (wrote), and the outcome.
saveGeneratedUI(code, dir, f, fault) ==
    IF ~dir /\ fault = "mkdir"
    THEN [dir |-> FALSE, file |-> f, made |-> FALSE, wrote |-> FALSE,
          result |-> Threw("EACCES: mkdir")]
    ELSE IF fault = "open"
    THEN [dir |-> TRUE, file |-> f, made |-> ~dir, wrote |-> FALSE,
          result |-> Threw("EACCES: open")]
    ELSE IF fault = "write"
    THEN [dir |-> TRUE, file |-> Some(<<>>), made |-> ~dir, wrote |-> TRUE,
          result |-> Threw("ENOSPC: write")]
    ELSE [dir |-> TRUE, file |-> Some(code), made |-> ~dir, wrote |-> TRUE,
          result |-> Returned(outputPath)]

-----------------------------------------------------------------------------
(* generateUI, lines 462-472: how the invocation ends once saveGeneratedUI  *)
(* has returned the path or thrown: return outputPath, or                  *)
(* catch (error) { console.error(...); throw error }.                      *)

\* The catch block throwing a new error in place of the one it caught.
generateUIResultWrapped(saved) ==
    IF saved.kind = "threw" THEN Threw("UI generation failed") ELSE saved

generateUIResult(saved) == saved

-----------------------------------------------------------------------------
(* State                                                                   *)
(*   env        process.env.GEMINI_API_KEY                                 *)
(*   apiKey     this.apiKey                                                *)
(*   dirExists  whether <projectRoot>/app exists                           *)
(*   file       the content of <projectRoot>/app/GeneratedUI.tsx, if any   *)
(*   writer     the invocation whose writeFileSync last changed the file   *)
(*   inv        the generateUI invocations: where each stands (pc), its    *)
(*              arguments and locals, the requests it issued, what the API *)
(*              answered, what the filesystem did (fault), how             *)
(*              saveGeneratedUI ended (saved) and how generateUI ended     *)
(*              (result); overlapped: the invocations that were in flight  *)
(*              when this one started                                      *)
(*   val        the validateGeneratedUI calls: where each stands, its      *)
(*              argument, what it read and what it returned or threw       *)

Invocations == {"c1", "c2"}

\* HTTP statuses the API answers with.
Statuses == {200, 400, 503}

IdleCall ==
    [pc |-> "idle", opts |-> NoOptions, prompt |-> <<>>, requests |-> <<>>,
     overlapped |-> {},
     fetched |-> "none", status |-> 0, data |-> Body("none", <<>>),
     via |-> "none", code |-> <<>>, fault |-> "none", madeDir |-> FALSE,
     saved |-> Pending, result |-> Pending]

Finished == {"returned", "threw"}

Validators == {"v1", "v2"}

IdleValidation ==
    [pc |-> "idle", path |-> <<>>, read |-> None, missing |-> <<>>,
     returned |-> None, thrown |-> None]

\* The constructor: apiKey = process.env.GEMINI_API_KEY || null
constructor(e) == IF Falsy(e) THEN Null ELSE e

Init ==
    /\ env \in EnvValues
    /\ apiKey = constructor(env)
    /\ dirExists \in BOOLEAN
    /\ file = None
    /\ writer = "none"
    /\ inv = [i \in Invocations |-> IdleCall]
    /\ val = [v \in Validators |-> IdleValidation]

\* The environment variable changes after construction.
SetEnv(e) ==
    /\ env' = e
    /\ e # env
    /\ UNCHANGED <<apiKey, dirExists, file, writer, inv, val>>

\* The invocations that have started and not yet ended.
InFlight == {j \in Invocations : inv[j].pc \notin {"idle"} \cup Finished}

\* A fallback that puts the application idea of the request into the code.
FallbackNamesIdea(c) ==
    [c EXCEPT !.pc = "generated", !.via = "fallback",
              !.code = generateEnhancedFallbackUI \o <<NL, c.opts.appIdea>>]

\* callGeminiAPI returns the fallback template (lines 31 and 67).
Fallback(c) ==
    [c EXCEPT !.pc = "generated", !.via = "fallback",
              !.code = generateEnhancedFallbackUI]

\* generateUI reading the environment variable anew at each call in place
\* of the credential the constructor stored.
generateUIReadsEnv(i, options) ==
    /\ inv[i].pc \in {"idle"} \cup Finished
    /\ LET prompt == buildUIPrompt(options.appIdea, options)
           key == constructor(env)
           c == [IdleCall EXCEPT !.opts = options, !.prompt = prompt,
                                 !.overlapped = InFlight \ {i}]
       IN  inv' = [inv EXCEPT ![i] =
               IF NoCredential(key)
               THEN Fallback(c)
               ELSE [c EXCEPT !.pc = "fetch",
                              !.requests = <<GeminiRequest(key, prompt)>>]]
    /\ UNCHANGED <<env, apiKey, dirExists, file, writer, val>>

\* generateUI creating an empty artifact before it generates anything.
generateUITouchesFile(i, options) ==
    /\ inv[i].pc \in {"idle"} \cup Finished
    /\ LET prompt == buildUIPrompt(options.appIdea, options)
           c == [IdleCall EXCEPT !.opts = options, !.prompt = prompt,
                                 !.overlapped = InFlight \ {i}]
       IN  inv' = [inv EXCEPT ![i] =
               IF NoCredential(apiKey)
               THEN Fallback(c)
               ELSE [c EXCEPT !.pc = "fetch",
                              !.requests = <<GeminiRequest(apiKey, prompt)>>]]
    /\ dirExists' = TRUE
    /\ file' = Some(<<>>)
    /\ writer' = i
    /\ UNCHANGED <<env, apiKey, val>>

\* generateUI up to its first suspension: buildUIPrompt, then callGeminiAPI
\* either returns the fallback at once or issues the request and awaits it.
generateUI(i, options) ==
    /\ inv[i].pc \in {"idle"} \cup Finished
    /\ LET prompt == buildUIPrompt(options.appIdea, options)
           c == [IdleCall EXCEPT !.opts = options, !.prompt = prompt,
                                 !.overlapped = InFlight \ {i}]
       IN  inv' = [inv EXCEPT ![i] =
               IF NoCredential(apiKey)
               THEN Fallback(c)
               ELSE [c EXCEPT !.pc = "fetch",
                              !.requests = <<GeminiRequest(apiKey, prompt)>>]]
    /\ UNCHANGED <<env, apiKey, dirExists, file, writer, val>>

\* FetchSettles with one retry: a failed request is issued again.
FetchSettlesRetry(i, kind, status) ==
    /\ inv[i].pc = "fetch"
    /\ LET c == [inv[i] EXCEPT !.fetched = kind, !.status = status]
       IN  inv' = [inv EXCEPT ![i] =
               IF kind = "rejected" \/ ~ResponseOk(status)
               THEN IF Len(c.requests) < 2
                    THEN [c EXCEPT !.requests = @ \o <<GeminiRequest(apiKey, c.prompt)>>]
                    ELSE Fallback(c)
               ELSE [c EXCEPT !.pc = "json"]]
    /\ UNCHANGED <<env, apiKey, dirExists, file, writer, val>>

\* await fetch(...) settles: it rejects, or resolves with a status.
FetchSettles(i, kind, status) ==
    /\ inv[i].pc = "fetch"
    /\ LET c == [inv[i] EXCEPT !.fetched = kind, !.status = status]
       IN  inv' = [inv EXCEPT ![i] =
               IF kind = "rejected" \/ ~ResponseOk(status)
               THEN Fallback(c)
               ELSE [c EXCEPT !.pc = "json"]]
    /\ UNCHANGED <<env, apiKey, dirExists, file, writer, val>>

\* await response.json() settles with body data.
JsonSettles(i, data) ==
    /\ inv[i].pc = "json"
    /\ LET g == AfterJson(data)
       IN  inv' = [inv EXCEPT ![i] =
               [@ EXCEPT !.pc = "generated", !.data = data,
                         !.via = g.via, !.code = g.code]]
    /\ UNCHANGED <<env, apiKey, dirExists, file, writer, val>>

\* Resume that writes only code that holds every required marker, and
\* throws for any other code.
ResumeValidates(i, fault) ==
    /\ inv[i].pc = "generated"
    /\ fault = "mkdir" => ~dirExists
    /\ LET complete == \A m \in {UseClientText, ExportDefaultText, UseFuyouStoreText,
                                   OnClickText, ConsoleLogText} :
                            Includes(inv[i].code, m)
           w == saveGeneratedUI(inv[i].code, dirExists, file, fault)
           s == IF complete THEN w
                ELSE [dir |-> dirExists, file |-> file, made |-> FALSE,
                      wrote |-> FALSE, result |-> Threw("Generated code is invalid")]
       IN  /\ dirExists' = s.dir
           /\ file' = s.file
           /\ writer' = IF s.wrote THEN i ELSE writer
           /\ inv' = [inv EXCEPT ![i] =
                  [@ EXCEPT !.pc = generateUIResult(s.result).kind,
                            !.fault = fault, !.madeDir = s.made,
                            !.saved = s.result,
                            !.result = generateUIResult(s.result)]]
    /\ UNCHANGED <<env, apiKey, val>>

\* Resume that waits until no other invocation is in flight.
ResumeWaitsForOthers(i, fault) ==
    /\ inv[i].pc = "generated"
    /\ InFlight = {i}
    /\ fault = "mkdir" => ~dirExists
    /\ LET s == saveGeneratedUI(inv[i].code, dirExists, file, fault)
       IN  /\ dirExists' = s.dir
           /\ file' = s.file
           /\ writer' = IF s.wrote THEN i ELSE writer
           /\ inv' = [inv EXCEPT ![i] =
                  [@ EXCEPT !.pc = generateUIResult(s.result).kind,
                            !.fault = fault, !.madeDir = s.made,
                            !.saved = s.result,
                            !.result = generateUIResult(s.result)]]
    /\ UNCHANGED <<env, apiKey, val>>

\* Resume with a writer that leaves a file that is already there as it is.
ResumeKeepsExisting(i, fault) ==
    /\ inv[i].pc = "generated"
    /\ fault = "mkdir" => ~dirExists
    /\ LET s == saveGeneratedUI(inv[i].code, dirExists, file, fault)
       IN  /\ dirExists' = s.dir
           /\ file' = IF file # None /\ s.result.kind = "returned"
                      THEN file ELSE s.file
           /\ writer' = IF s.wrote THEN i ELSE writer
           /\ inv' = [inv EXCEPT ![i] =
                  [@ EXCEPT !.pc = generateUIResult(s.result).kind,
                            !.fault = fault, !.madeDir = s.made,
                            !.saved = s.result,
                            !.result = generateUIResult(s.result)]]
    /\ UNCHANGED <<env, apiKey, val>>

\* generateUI resumes with the generated code: saveGeneratedUI, then return
\* the path; an error thrown by saveGeneratedUI is logged and thrown again.
Resume(i, fault) ==
    /\ inv[i].pc = "generated"
    /\ fault = "mkdir" => ~dirExists
    /\ LET s == saveGeneratedUI(inv[i].code, dirExists, file, fault)
       IN  /\ dirExists' = s.dir
           /\ file' = s.file
           /\ writer' = IF s.wrote THEN i ELSE writer
           /\ inv' = [inv EXCEPT ![i] =
                  [@ EXCEPT !.pc = generateUIResult(s.result).kind,
                            !.fault = fault, !.madeDir = s.made,
                            !.saved = s.result,
                            !.result = generateUIResult(s.result)]]
    /\ UNCHANGED <<env, apiKey, val>>

-----------------------------------------------------------------------------
(* validateGeneratedUI                                                     *)

\* The required elements without the last one.
requiredElementsFour ==
    <<UseClientText, ExportDefaultText, UseFuyouStoreText, OnClickText>>

\* requiredElements, lines 510-516, in the order of the array literal.
requiredElements ==
    <<UseClientText, ExportDefaultText, UseFuyouStoreText, OnClickText,
      ConsoleLogText>>

\* A missing list that names every required element as soon as one is
\* missing.
missingAllOrNone(content) ==
    IF \E k \in 1..Len(requiredElements) : ~Includes(content, requiredElements[k])
    THEN requiredElements
    ELSE <<>>

\* requiredElements.filter(element => !content.includes(element))
missingElements(content) ==
    LET absent(element) == ~Includes(content, element)
    IN  SelectSeq(requiredElements, absent)

\* The paths validateGeneratedUI is called with: the artifact, the output
\* directory, and a path at which nothing exists.
ValidatePaths == {outputPath, outputDir, outputDir \o <<"Missing.tsx">>}

\* existsSync(path)
existsSync(path) ==
    \/ path = outputPath /\ file # None
    \/ path = outputDir /\ dirExists

\* What the filesystem does to readFileSync: nothing wrong, or it throws.
ReadFaults == {"none", "EACCES"}

\* readFileSync(path, 'utf8'): the content, or the error thrown.
readFileSync(path, fault) ==
    IF path = outputDir THEN Threw("EISDIR: read")
    ELSE IF path # outputPath \/ file = None THEN Threw("ENOENT: open")
    ELSE IF fault # "none" THEN Threw("EACCES: open")
    ELSE Returned(file[1])

\* validateGeneratedUI without its try/catch: the error reaches the caller.
uncaught(v, error) ==
    [v EXCEPT !.pc = "done", !.thrown = Some(error)]

\* Lines 528-531: the catch block logs the error and returns false.
caught(v, error) ==
    [v EXCEPT !.pc = "done", !.returned = Some(FALSE)]

\* validateGeneratedUI(path) up to its suspension: a path at which nothing
\* exists throws into the catch block; otherwise await import('fs').
ValidateStarts(w, path) ==
    /\ val[w].pc \in {"idle", "done"}
    /\ LET v == [IdleValidation EXCEPT !.path = path]
       IN  val' = [val EXCEPT ![w] =
               IF ~existsSync(path)
               THEN caught(v, "Generated file not found")
               ELSE [v EXCEPT !.pc = "import"]]
    /\ UNCHANGED <<env, apiKey, dirExists, file, writer, inv>>

\* validateGeneratedUI deleting a file that fails the validation.
ValidateReadsAndCleans(w, fault) ==
    /\ val[w].pc = "import"
    /\ LET r == readFileSync(val[w].path, fault)
       IN  IF r.kind = "threw"
           THEN /\ val' = [val EXCEPT ![w] = caught(@, r.value[1])]
                /\ file' = file
           ELSE LET missing == missingElements(r.value)
                IN  /\ val' = [val EXCEPT ![w] =
                           [@ EXCEPT !.pc = "done", !.read = Some(r.value),
                                     !.missing = missing,
                                     !.returned = Some(Len(missing) = 0)]]
                    /\ file' = IF Len(missing) = 0 THEN file ELSE None
    /\ UNCHANGED <<env, apiKey, dirExists, writer, inv>>

\* validateGeneratedUI resumes: readFileSync, the missing elements, and
\* return missingElements.length === 0; a read error lands in the catch.
ValidateReads(w, fault) ==
    /\ val[w].pc = "import"
    /\ LET r == readFileSync(val[w].path, fault)
       IN  val' = [val EXCEPT ![w] =
               IF r.kind = "threw"
               THEN caught(@, r.value[1])
               ELSE LET missing == missingElements(r.value)
                    IN  [@ EXCEPT !.pc = "done", !.read = Some(r.value),
                                  !.missing = missing,
                                  !.returned = Some(Len(missing) = 0)]]
    /\ UNCHANGED <<env, apiKey, dirExists, file, writer, inv>>

-----------------------------------------------------------------------------
(* Inputs                                                                  *)

ConstX == <<"c", "o", "n", "s", "t", " ", "x", " ", "=", " ", "1">>

\* Texts of the API's text field in the specification of the whole pipeline.
ApiTexts ==
    { <<"a">>,
      <<SP>>,
      <<NL, SP>>,
      Fence \o <<NL, NL>> \o Fence,
      Fence \o tsx \o <<NL>> \o ConstX \o <<NL>> \o Fence,
      <<"a", SP>> \o Fence \o <<NL, "b", SP, NL>> \o Fence \o <<NL, "c">> }

ApiBodies ==
    {Body(sh, <<>>) : sh \in FailingShapes}
      \cup {Body("text", <<>>)}
      \cup {Body("text", t) : t \in ApiTexts}

\* The caller of the sequential specification.
Callers == {"c1"}

Next ==
    \/ \E e \in EnvValues : SetEnv(e)
    \/ \E i \in Callers, o \in OptionsSet : generateUI(i, o)
    \/ \E i \in Callers : FetchSettles(i, "rejected", 0)
    \/ \E i \in Callers, st \in Statuses : FetchSettles(i, "responded", st)
    \/ \E i \in Callers, d \in ApiBodies : JsonSettles(i, d)
    \/ \E i \in Callers, f \in FsFaults : Resume(i, f)

Spec == Init /\ [][Next]_vars

-----------------------------------------------------------------------------
(* The specification of extraction: one invocation whose request has been  *)
(* answered with status 200 and whose body is about to be read; the text   *)
(* field is drawn from Responses.                                          *)

MaxPieces == 4

\* Texts put together from at most n pieces, in any order.
Pieces == {<<BT>>, Fence, <<NL>>, <<SP>>, <<"a">>, ts, <<"x">>}

RECURSIVE FreeTexts(_)
FreeTexts(n) ==
    IF n = 0 THEN {<<>>}
    ELSE LET shorter == FreeTexts(n - 1)
         IN  shorter \cup {t \o p : t \in shorter, p \in Pieces}

\* Texts made of fenced blocks with prose around and between them. A block is
\* an opening fence with or without a tag, a line break, the content, a line
\* break, a closing fence.
js == <<"j", "s">>
BlockTags == {<<>>, ts, tsx, typescript, js}
BlockContents ==
    {<<>>, <<"a">>, <<SP, "b", NL>>, <<"a", BT, BT, NL, "b">>, ts \o <<NL, "x">>}
Prose == {<<>>, <<NL>>, <<"a", SP>>, <<SP, "a", BT, NL>>}

FencedBlock(tag, content) == Fence \o tag \o <<NL>> \o content \o <<NL>> \o Fence

MoreBlocks(texts, tags, contents, prose) ==
    {t \o FencedBlock(tag, c) \o p :
        t \in texts, tag \in tags, c \in contents, p \in prose}

OneBlockTexts == MoreBlocks(Prose, BlockTags, BlockContents, Prose)

TwoBlockTexts ==
    MoreBlocks(MoreBlocks({<<>>, <<"a", SP>>}, BlockTags, {<<>>, <<"a">>, <<SP, "b", NL>>},
                          {<<>>, <<NL>>, <<"a", SP>>}),
               BlockTags, {<<>>, <<"c">>}, {<<>>, <<NL, "d">>})

ThreeBlockTexts ==
    MoreBlocks(MoreBlocks(MoreBlocks({<<>>}, {<<>>, tsx}, {<<"a">>}, {<<NL>>, <<"b">>}),
                          {<<>>, ts}, {<<"c">>}, {<<NL>>}),
               {<<>>, js}, {<<"d">>}, {<<>>, <<"e">>})

\* Texts that are one fenced block with a tag the pattern does not list.
jsx == <<"j", "s", "x">>
javascript == <<"j", "a", "v", "a", "s", "c", "r", "i", "p", "t">>
OtherTagTexts ==
    {FencedBlock(tag, c) : tag \in {js, jsx, javascript}, c \in BlockContents}

Responses ==
    FreeTexts(MaxPieces) \cup OneBlockTexts \cup TwoBlockTexts
      \cup ThreeBlockTexts \cup ApiTexts \cup OtherTagTexts

InitExtract ==
    /\ env = EnvKey
    /\ apiKey = constructor(env)
    /\ dirExists = FALSE
    /\ file = None
    /\ writer = "none"
    /\ val = [v \in Validators |-> IdleValidation]
    /\ \E o \in {[NoOptions EXCEPT !.appIdea = "issue tracker"]} :
         LET prompt == buildUIPrompt(o.appIdea, o)
         IN  inv = [i \in Invocations |->
                 IF i \in Callers
                 THEN [IdleCall EXCEPT !.pc = "json", !.opts = o,
                                       !.prompt = prompt,
                                       !.requests = <<GeminiRequest(apiKey, prompt)>>,
                                       !.fetched = "responded", !.status = 200]
                 ELSE IdleCall]

NextExtract ==
    \E i \in Callers :
        /\ inv[i].pc = "json"
        /\ \E t \in Responses : JsonSettles(i, Body("text", t))

SpecExtract == InitExtract /\ [][NextExtract]_vars

-----------------------------------------------------------------------------
(* Generation followed by validation: the pipeline with API texts made of  *)
(* the required elements, and validateGeneratedUI called at any moment.    *)

\* The required elements numbered in K, one per line, in their order.
RECURSIVE MarkerLines(_, _)
MarkerLines(K, k) ==
    IF k > Len(requiredElements) THEN <<>>
    ELSE (IF k \in K THEN requiredElements[k] \o <<NL>> ELSE <<>>)
             \o MarkerLines(K, k + 1)

\* API texts that hold all the required elements, all but one, or none.
MarkerTexts ==
    {MarkerLines(K, 1) \o <<"}">> :
        K \in {J \in SUBSET (1..Len(requiredElements)) :
                   Cardinality(J) \in {0, Len(requiredElements) - 1,
                                       Len(requiredElements)}}}

ValidateOptions ==
    {o \in OptionsSet : o.theme = None /\ o.features = None /\ o.apiKey = None}

ValidateBodies == {Body("text", t) : t \in MarkerTexts}

NextValidate ==
    \/ \E i \in Callers, o \in ValidateOptions : generateUI(i, o)
    \/ \E i \in Callers : FetchSettles(i, "rejected", 0)
    \/ \E i \in Callers : FetchSettles(i, "responded", 200)
    \/ \E i \in Callers, d \in ValidateBodies : JsonSettles(i, d)
    \/ \E i \in Callers, f \in FsFaults : Resume(i, f)
    \/ \E p \in ValidatePaths : ValidateStarts("v1", p)
    \/ \E f \in ReadFaults : ValidateReads("v1", f)

SpecValidate == Init /\ [][NextValidate]_vars

-----------------------------------------------------------------------------
(* Two validations that may interleave with each other and with one        *)
(* generation.                                                             *)

RevalidateTexts ==
    {MarkerLines(K, 1) \o <<"}">> :
        K \in {1..Len(requiredElements), 1..(Len(requiredElements) - 1)}}

NextRevalidate ==
    \/ \E i \in Callers : generateUI(i, NoOptions)
    \/ \E i \in Callers : FetchSettles(i, "rejected", 0)
    \/ \E i \in Callers : FetchSettles(i, "responded", 200)
    \/ \E i \in Callers, t \in RevalidateTexts : JsonSettles(i, Body("text", t))
    \/ \E i \in Callers : Resume(i, "none")
    \/ \E w \in Validators, p \in ValidatePaths : ValidateStarts(w, p)
    \/ \E w \in Validators, f \in ReadFaults : ValidateReads(w, f)

SpecRevalidate == Init /\ [][NextRevalidate]_vars

-----------------------------------------------------------------------------
(* Two generateUI invocations on the same UIGenerator, each called once,   *)
(* that may overlap: every await is a point where the other may run.       *)

\* Two requests that differ in appIdea, theme and features.
ConcOptions ==
    {NoOptions,
     [appIdea |-> "issue tracker", theme |-> Some("minimal"),
      features |-> Some(<<"auth">>), apiKey |-> None]}

ConcBodies ==
    {Body("no_candidates", <<>>), Body("text", <<"a">>),
     Body("text", Fence \o tsx \o <<NL>> \o ConstX \o <<NL>> \o Fence)}

NextConc ==
    \/ \E i \in Invocations, o \in ConcOptions :
           inv[i].pc = "idle" /\ generateUI(i, o)
    \/ \E i \in Invocations : FetchSettles(i, "rejected", 0)
    \/ \E i \in Invocations : FetchSettles(i, "responded", 200)
    \/ \E i \in Invocations, d \in ConcBodies : JsonSettles(i, d)
    \/ \E i \in Invocations, f \in FsFaults : Resume(i, f)

SpecConc == Init /\ [][NextConc]_vars

\* The API call of invocation i settles: await fetch(...) or, after it,
\* await response.json().
ApiSettles(i) ==
    \/ FetchSettles(i, "rejected", 0)
    \/ FetchSettles(i, "responded", 200)
    \/ \E d \in ConcBodies : JsonSettles(i, d)

\* The event loop runs the continuation of invocation i.
Continues(i) == \E f \in FsFaults : Resume(i, f)

\* The overlapping invocations under the assumptions that every API call
\* eventually settles and that a continuation that is ready eventually runs.
SpecLive ==
    /\ Init
    /\ [][NextConc]_vars
    /\ \A i \in Invocations : WF_vars(ApiSettles(i)) /\ WF_vars(Continues(i))

-----------------------------------------------------------------------------
(* Properties of callGeminiAPI and generateUI                              *)

\* callGeminiAPI has returned in invocation record c.
Settled(c) == c.pc \in {"generated"} \cup Finished

TsxExample == Fence \o tsx \o <<NL>> \o ConstX \o <<NL>> \o Fence

\* C1: whatever the credential and whatever the API call does, callGeminiAPI
\* returns, and the source text it returns is not empty.
C1_GenerateReturnsNonEmpty ==
    \A i \in Invocations : Settled(inv[i]) => inv[i].code # <<>>

\* C2: with no credential configured, callGeminiAPI returns the fallback
\* template for every prompt and the invocation issues no request.
C2_NoCredentialFallback ==
    \A i \in Invocations :
        (apiKey = Null /\ inv[i].pc # "idle")
            => /\ Settled(inv[i])
               /\ inv[i].requests = <<>>
               /\ inv[i].via = "fallback"
               /\ inv[i].code = generateEnhancedFallbackUI

C2_Witness ==
    /\ apiKey = Null
    /\ inv["c1"].pc = "generated"
    /\ inv["c1"].opts.appIdea = "issue tracker"
    /\ inv["c1"].code = generateEnhancedFallbackUI

\* The API call of invocation record c ended in one of the failure classes:
\* the fetch rejected, the status is not a success, the body cannot be
\* parsed, a field of candidates[0].content.parts[0].text is missing, or the
\* text is empty.
ApiFailed(c) ==
    \/ c.fetched = "rejected"
    \/ c.fetched = "responded" /\ c.status \notin 200..299
    \/ c.data.shape \in {"unparsable"} \cup MissingShapes
    \/ c.data.shape = "text" /\ c.data.text = <<>>

\* C3: with a credential configured, an API call that ends in a failure class
\* makes callGeminiAPI return the fallback template verbatim; it returns
\* rather than throws.
C3_FailureFallsBack ==
    \A i \in Invocations :
        (apiKey # Null /\ ApiFailed(inv[i]))
            => /\ Settled(inv[i])
               /\ inv[i].via = "fallback"
               /\ inv[i].code = generateEnhancedFallbackUI

C3_Witness ==
    /\ apiKey = EnvKey
    /\ inv["c1"].pc = "generated"
    /\ inv["c1"].status = 400
    /\ inv["c1"].code = generateEnhancedFallbackUI

\* C4: with a credential configured, a successful call with non-empty text t
\* makes callGeminiAPI return extractCodeFromResponse(t), by the model path.
C4_SuccessReturnsExtract ==
    \A i \in Invocations :
        (Settled(inv[i]) /\ inv[i].data.shape = "text" /\ inv[i].data.text # <<>>)
            => /\ inv[i].via = "model"
               /\ inv[i].code = extractCodeFromResponse(inv[i].data.text)

C4_Witness ==
    /\ inv["c1"].pc = "generated"
    /\ inv["c1"].data = Body("text", TsxExample)
    /\ inv["c1"].via = "model"
    /\ inv["c1"].code = ConstX

\* C5: when saveGeneratedUI throws, generateUI throws that same error and
\* returns no path; and generateUI throws only when saveGeneratedUI did.
C5_WriterErrorPropagates ==
    \A i \in Invocations :
        /\ inv[i].saved.kind = "threw"
               => inv[i].pc = "threw" /\ inv[i].result = inv[i].saved
        /\ (inv[i].pc = "threw" \/ inv[i].result.kind = "threw")
               => inv[i].saved.kind = "threw" /\ inv[i].fault # "none"

C5_Witness ==
    /\ inv["c1"].pc = "threw"
    /\ inv["c1"].fault = "mkdir"
    /\ inv["c1"].result = Threw("EACCES: mkdir")
    /\ file = None

\* C6: an invocation whose filesystem operations all succeed returns the
\* path, and the directory and the artifact exist then, whatever the
\* credential and whatever the API call did.
C6_AlwaysAnArtifact ==
    \A i \in Invocations :
        (inv[i].pc \in Finished /\ inv[i].fault = "none")
            => /\ inv[i].pc = "returned"
               /\ inv[i].result = Returned(outputPath)
               /\ dirExists
               /\ file # None

C6_Witness ==
    /\ inv["c1"].pc = "returned"
    /\ inv["c1"].fetched = "rejected"
    /\ inv["c1"].result = Returned(outputPath)
    /\ file = Some(generateEnhancedFallbackUI)

\* C7: an invocation issues no request when no credential is configured and
\* exactly one otherwise; a failed request is not issued again.
C7_AtMostOneRequest ==
    \A i \in Invocations :
        inv[i].pc # "idle"
            => Len(inv[i].requests) = (IF apiKey = Null THEN 0 ELSE 1)

C7_Witness ==
    /\ inv["c1"].pc = "returned"
    /\ inv["c1"].fetched = "responded"
    /\ inv["c1"].status = 503
    /\ Len(inv["c1"].requests) = 1

-----------------------------------------------------------------------------
(* Properties of extractCodeFromResponse                                   *)

\* The indices at which a fence (three backticks) starts.
FenceMarks(s) == {i \in 1..Len(s) : StartsWithAt(s, i, Fence)}

\* The k-th smallest element of M.
Nth(M, k) == CHOOSE x \in M : Cardinality({y \in M : y < x}) = k - 1

RecognisedTags == {<<>>, typescript, tsx, ts}

\* The index of the first character after the opening fence line that starts
\* at i (fence, no tag or a recognised tag, line break); 0 if none starts there.
ContentStart(s, i) ==
    LET tags == {t \in RecognisedTags : StartsWithAt(s, i + 3, t \o <<NL>>)}
    IN  IF tags = {} THEN 0 ELSE i + 3 + Len(CHOOSE t \in tags : TRUE) + 1

\* The fences at i and j delimit a fenced block: an opening fence line at i,
\* and the fence at j at the start of a later line.
IsBlock(s, i, j) ==
    /\ ContentStart(s, i) # 0
    /\ j - 1 >= ContentStart(s, i)
    /\ s[j - 1] = NL

BlockContent(s, i, j) == SubSeq(s, ContentStart(s, i), j - 2)

\* The number of fenced blocks of a text whose fences pair up into fenced
\* blocks, one after the other; 0 for any other text.
BlockCount(s) ==
    LET M == FenceMarks(s)
        n == Cardinality(M) \div 2
    IN  IF /\ Cardinality(M) = 2 * n
           /\ \A k \in 1..n : IsBlock(s, Nth(M, 2 * k - 1), Nth(M, 2 * k))
        THEN n ELSE 0

FirstBlockContent(s) ==
    BlockContent(s, Nth(FenceMarks(s), 1), Nth(FenceMarks(s), 2))

\* No two fences of the text delimit a fenced block.
NoBlock(s) == \A i, j \in FenceMarks(s) : ~IsBlock(s, i, j)

\* r is s without its leading and trailing whitespace.
IsTrimOf(r, s) ==
    /\ r # <<>> => r[1] \notin WhiteSpace /\ r[Len(r)] \notin WhiteSpace
    /\ \E a \in 0..(Len(s) - Len(r)) :
           /\ SubSeq(s, a + 1, a + Len(r)) = r
           /\ \A k \in 1..a : s[k] \in WhiteSpace
           /\ \A k \in (a + Len(r) + 1)..Len(s) : s[k] \in WhiteSpace

\* The text that was extracted in invocation record c.
Extracted(c) == c.pc = "generated" /\ c.data.shape = "text" /\ c.data.text # <<>>

\* C8: for a text with exactly one fenced block (no tag, or typescript, tsx
\* or ts), with or without prose around it, the result is the content of the
\* block, trimmed: no fence, no tag, no prose. For the text
\* "```tsx\nconst x = 1\n```" it is "const x = 1".
C8_OneBlockContent ==
    \A i \in Invocations :
        /\ (Extracted(inv[i]) /\ BlockCount(inv[i].data.text) = 1)
               => /\ inv[i].via = "model"
                  /\ IsTrimOf(inv[i].code, FirstBlockContent(inv[i].data.text))
        /\ (Extracted(inv[i]) /\ inv[i].data.text = TsxExample)
               => inv[i].code = ConstX

C8_Witness ==
    /\ inv["c1"].pc = "generated"
    /\ inv["c1"].data.text = <<"a", SP>> \o FencedBlock(typescript, <<SP, "b", NL>>) \o <<NL>>
    /\ BlockCount(inv["c1"].data.text) = 1
    /\ inv["c1"].code = <<"b">>

\* C9: for a text with no fenced block the result is the whole text, trimmed
\* and otherwise unchanged; extraction returns (it does not throw) whatever
\* the text.
C9_NoBlockWholeText ==
    \A i \in Invocations :
        /\ (Extracted(inv[i]) /\ NoBlock(inv[i].data.text))
               => IsTrimOf(inv[i].code, inv[i].data.text)
        /\ Extracted(inv[i]) => inv[i].via = "model"

C9_Witness ==
    /\ inv["c1"].pc = "generated"
    /\ inv["c1"].data.text = <<NL, "a", "x", SP>>
    /\ NoBlock(inv["c1"].data.text)
    /\ inv["c1"].code = <<"a", "x">>

\* C10: for a text with two or more fenced blocks the result is the content
\* of the first block, trimmed: nothing of a later block or of the text
\* between the blocks.
C10_FirstBlockOnly ==
    \A i \in Invocations :
        (Extracted(inv[i]) /\ BlockCount(inv[i].data.text) >= 2)
            => /\ inv[i].via = "model"
               /\ IsTrimOf(inv[i].code, FirstBlockContent(inv[i].data.text))

C10_Witness ==
    /\ inv["c1"].pc = "generated"
    /\ inv["c1"].data.text =
           <<"a", SP>> \o FencedBlock(ts, <<"a">>) \o <<NL>>
             \o FencedBlock(tsx, <<"c">>) \o <<NL, "d">>
    /\ BlockCount(inv["c1"].data.text) = 2
    /\ inv["c1"].code = <<"a">>

(***************************************************************************)
(* The artifact file across calls.                                         *)
(***************************************************************************)

\* The source text that the call of record c produces, from the credential
\* and the outcome of that call's own API request alone.
Produced(c) ==
    IF \/ apiKey = Null
       \/ c.fetched = "rejected"
       \/ c.status \notin 200..299
       \/ c.data.shape # "text"
       \/ c.data.text = <<>>
    THEN generateEnhancedFallbackUI
    ELSE extractCodeFromResponse(c.data.text)

C12_WriteSucceeds ==
    \A i \in Invocations :
        (inv[i].pc \in Finished /\ inv[i].fault = "none")
            => /\ inv[i].saved = Returned(outputPath)
               /\ inv[i].pc = "returned"
               /\ dirExists
               /\ file = Some(inv[i].code)

C12_Witness ==
    /\ inv["c1"].pc = "returned"
    /\ inv["c1"].fault = "none"
    /\ inv["c1"].madeDir
    /\ inv["c1"].code = <<>>
    /\ dirExists
    /\ file = Some(<<>>)

(***************************************************************************)
(* Validation.                                                             *)
(***************************************************************************)

\* The five fixed substrings validation requires.
FiveMarkers ==
    {UseClientText, ExportDefaultText, UseFuyouStoreText, OnClickText,
     ConsoleLogText}

MissingFrom(content) == {m \in FiveMarkers : ~Includes(content, m)}

\* The validation w has ended after reading the content of an existing file.
HasRead(w) == val[w].pc = "done" /\ val[w].read # None

\* C13: validateGeneratedUI on an existing file that it could read returns
\* true exactly when none of the five markers is missing from the content;
\* a file that contains all five passes.
C13_PassIffNoneMissing ==
    \A w \in Validators :
        HasRead(w)
            => /\ val[w].thrown = None
               /\ val[w].returned = Some(MissingFrom(val[w].read[1]) = {})
               /\ (\A m \in FiveMarkers : Includes(val[w].read[1], m))
                      => val[w].returned = Some(TRUE)

C13_Witness ==
    /\ HasRead("v1")
    /\ val["v1"].path = outputPath
    /\ val["v1"].read = Some(MarkerLines(1..5, 1) \o <<"}">>)
    /\ MissingFrom(val["v1"].read[1]) = {}
    /\ val["v1"].returned = Some(TRUE)

\* C14: for each of the five markers m, validating a file that contains the
\* other four and not m fails, and the missing list is exactly <<m>>.
C14_OneMissingFails ==
    \A w \in Validators : \A m \in FiveMarkers :
        (HasRead(w) /\ MissingFrom(val[w].read[1]) = {m})
            => /\ val[w].returned = Some(FALSE)
               /\ val[w].missing = <<m>>

C14_Witness ==
    /\ HasRead("v1")
    /\ MissingFrom(val["v1"].read[1]) = {OnClickText}
    /\ val["v1"].returned = Some(FALSE)
    /\ val["v1"].missing = <<OnClickText>>

\* C15: validateGeneratedUI never throws: a call that has ended has returned
\* a boolean; for a path at which nothing exists, and whenever reading
\* fails, it has returned false.
C15_ValidateNeverThrows ==
    \A w \in Validators :
        /\ val[w].thrown = None
        /\ val[w].pc = "done"
               => /\ val[w].returned \in {Some(TRUE), Some(FALSE)}
                  /\ (val[w].path # outputPath \/ val[w].read = None)
                         => val[w].returned = Some(FALSE)

C15_Witness ==
    /\ val["v1"].pc = "done"
    /\ val["v1"].path = outputDir \o <<"Missing.tsx">>
    /\ val["v1"].read = None
    /\ val["v1"].returned = Some(FALSE)
    /\ val["v1"].thrown = None

\* C16: a step of validateGeneratedUI changes nothing but the validation
\* itself (the filesystem, the credential, the environment and the
\* generations stay as they are), and two validations of the same path that
\* read the same content have the same result and the same missing list.
C16_ValidateChangesNothing ==
    [][/\ val' # val => UNCHANGED <<env, apiKey, dirExists, file, writer, inv>>
       /\ \A v, w \in Validators :
              (HasRead(v)' /\ HasRead(w)' /\ val'[v].path = val'[w].path
                    /\ val'[v].read = val'[w].read)
                  => /\ val'[v].returned = val'[w].returned
                     /\ val'[v].missing = val'[w].missing]_vars

C16_Witness ==
    /\ HasRead("v1") /\ HasRead("v2")
    /\ val["v1"].path = outputPath /\ val["v2"].path = outputPath
    /\ val["v1"].read = val["v2"].read
    /\ val["v1"].read = file
    /\ val["v1"].returned = Some(FALSE) /\ val["v2"].returned = Some(FALSE)
    /\ val["v1"].missing = <<ConsoleLogText>>

\* C17: with no credential, for every appIdea, a generateUI call that
\* returns has returned the path that ends in GeneratedUI.tsx, and a
\* validation of that path that reads the file after the return passes.
C17_FallbackArtifactPasses ==
    [][\A i \in Callers :
          (apiKey = Null /\ inv[i].pc = "returned")
              => /\ inv[i].result.kind = "returned"
                 /\ inv[i].result.value[Len(inv[i].result.value)] = "GeneratedUI.tsx"
                 /\ \A w \in Validators :
                        (val[w].pc = "import" /\ val[w].path = inv[i].result.value
                              /\ HasRead(w)')
                            => val'[w].returned = Some(TRUE)]_vars

C17_Witness ==
    /\ apiKey = Null
    /\ inv["c1"].pc = "returned"
    /\ inv["c1"].opts.appIdea = "issue tracker"
    /\ inv["c1"].requests = <<>>
    /\ HasRead("v1")
    /\ val["v1"].path = inv["c1"].result.value
    /\ val["v1"].read = Some(inv["c1"].code)
    /\ val["v1"].returned = Some(TRUE)

(***************************************************************************)
(* The credential.                                                         *)
(***************************************************************************)

\* C18: no step changes the credential stored at construction; and when the
\* constructor stored none, every generateUI call takes the fallback path
\* and issues no request, also a call that starts when the environment
\* variable has been set since.
C18_CredentialFixed ==
    [][/\ apiKey' = apiKey
       /\ \A i \in Invocations :
              /\ (apiKey = Null /\ inv'[i].pc # "idle")
                     => /\ inv'[i].requests = <<>>
                        /\ inv'[i].via = "fallback"
              /\ (apiKey = Null /\ env = EnvKey /\ inv'[i] # inv[i]
                        /\ inv[i].pc \in {"idle"} \cup Finished)
                     => /\ inv'[i].pc = "generated"
                        /\ inv'[i].requests = <<>>
                        /\ inv'[i].code = generateEnhancedFallbackUI]_vars

C18_Witness ==
    /\ env = EnvKey
    /\ apiKey = Null
    /\ inv["c1"].pc = "returned"
    /\ inv["c1"].requests = <<>>
    /\ inv["c1"].via = "fallback"
    /\ file = Some(generateEnhancedFallbackUI)

(***************************************************************************)
(* Overlapping invocations.                                                *)
(***************************************************************************)

\* A step that invocation i can take on its own once it has started.
StepOf(i) ==
    \/ FetchSettles(i, "rejected", 0)
    \/ FetchSettles(i, "responded", 200)
    \/ \E d \in ConcBodies : JsonSettles(i, d)
    \/ \E f \in FsFaults : Resume(i, f)

\* C19: of two invocations that overlap neither waits for the other (each
\* one in flight can take its next step), and whenever the invocation whose
\* write changed the file last has returned, the file holds exactly the
\* complete source text of that invocation: the last writer wins, whichever
\* started last, and the content is never a mixture of two texts.
C19_LastWriterWins ==
    /\ \A i \in InFlight : ENABLED StepOf(i)
    /\ \A i \in Invocations :
           (writer = i /\ inv[i].pc = "returned") => file = Some(inv[i].code)
    /\ file # None
           => \E i \in Invocations :
                  /\ writer = i
                  /\ file \in {Some(inv[i].code), Some(<<>>)}

C19_Witness ==
    /\ inv["c1"].pc = "returned"
    /\ inv["c2"].pc = "returned"
    /\ inv["c1"].overlapped = {}
    /\ inv["c2"].overlapped = {"c1"}
    /\ inv["c1"].code # inv["c2"].code
    /\ writer = "c1"
    /\ file = Some(inv["c1"].code)

\* C20: the fallback code does not depend on the request: any two
\* invocations that took the fallback path hold the same code, whatever
\* their appIdea, theme and features, and the file written by one of them
\* is identical to the code of the other.
C20_FallbackSameForAll ==
    \A i, j \in Invocations :
        (Settled(inv[i]) /\ Settled(inv[j])
              /\ inv[i].via = "fallback" /\ inv[j].via = "fallback")
            => /\ inv[i].code = inv[j].code
               /\ (writer = i /\ inv[i].pc = "returned")
                      => file = Some(inv[j].code)

C20_Witness ==
    /\ inv["c1"].pc = "returned"
    /\ inv["c2"].pc = "returned"
    /\ inv["c1"].via = "fallback"
    /\ inv["c2"].via = "fallback"
    /\ inv["c1"].opts.appIdea # inv["c2"].opts.appIdea
    /\ inv["c1"].opts.theme # inv["c2"].opts.theme
    /\ inv["c1"].opts.features # inv["c2"].opts.features
    /\ writer = "c2"
    /\ file = Some(inv["c1"].code)

(***************************************************************************)
(* The order of the steps of one invocation.                               *)
(***************************************************************************)

\* C21: in every step of an invocation, the prompt is built when the
\* invocation starts, before anything is generated; the output directory and
\* the artifact file change only in the step that follows the settled
\* generation; and the invocation returns in that same step, after the
\* write, with exactly the path of the file just written.
C21_PromptGenerateWrite ==
    [][/\ (file' # file \/ dirExists' # dirExists \/ writer' # writer)
             => \E i \in Invocations :
                    /\ inv[i].pc = "generated"
                    /\ inv[i].via \in {"model", "fallback"}
                    /\ inv'[i].pc \in Finished
       /\ \A i \in Invocations :
              /\ (inv[i].pc \in {"idle"} \cup Finished /\ inv'[i] # inv[i])
                     => /\ inv'[i].prompt
                              = buildUIPrompt(inv'[i].opts.appIdea, inv'[i].opts)
                        /\ inv'[i].pc \in {"fetch", "generated"}
                        /\ inv'[i].saved = Pending
              /\ inv[i].pc \in {"fetch", "json"}
                     => /\ inv[i].prompt
                              = buildUIPrompt(inv[i].opts.appIdea, inv[i].opts)
                        /\ inv[i].requests[1].prompt = inv[i].prompt
                        /\ inv[i].via = "none"
                        /\ file' = file
              /\ (inv'[i].pc = "returned" /\ inv'[i] # inv[i])
                     => /\ inv[i].pc = "generated"
                        /\ file' = Some(inv[i].code)
                        /\ writer' = i
                        /\ inv'[i].result = Returned(outputPath)]_vars

C21_Witness ==
    /\ inv["c1"].pc = "returned"
    /\ inv["c1"].via = "model"
    /\ inv["c1"].opts.appIdea = "issue tracker"
    /\ inv["c1"].prompt = buildUIPrompt("issue tracker", inv["c1"].opts)
    /\ inv["c1"].code = ConstX
    /\ inv["c1"].madeDir
    /\ file = Some(ConstX)
    /\ inv["c1"].result = Returned(outputPath)

(***************************************************************************)
(* The options of a call.                                                  *)
(***************************************************************************)

\* C22: a generateUI call whose options carry an apiKey uses that key as
\* the credential of the call: it issues one request, and the request
\* carries the key of the options, whatever the environment supplied.
C22_OptionsKeyOverrides ==
    \A i \in Invocations :
        (inv[i].pc # "idle" /\ inv[i].opts.apiKey # None)
            => /\ Len(inv[i].requests) = 1
               /\ inv[i].requests[1].url[2] = inv[i].opts.apiKey[1]

(***************************************************************************)
(* Termination.                                                            *)
(***************************************************************************)

\* C23: when every API call eventually settles, every invocation that has
\* started eventually ends, returning a path or throwing the filesystem
\* error; an invocation waits nowhere but at its API call (once the
\* generation has settled its next step is enabled), and while its API call
\* has not settled it moves only by that call settling (there is no
\* timeout), it has written nothing and it has not ended.
C23_EndsWhenApiSettles ==
    /\ \A i \in Invocations :
           (inv[i].pc \in {"fetch", "json", "generated"})
               ~> (\/ inv[i].pc = "returned" /\ inv[i].result = Returned(outputPath)
                   \/ inv[i].pc = "threw" /\ inv[i].result = inv[i].saved
                         /\ inv[i].saved.kind = "threw")
    /\ [](\A i \in Invocations :
             /\ inv[i].pc = "generated" => ENABLED Continues(i)
             /\ inv[i].pc \in {"fetch", "json"}
                    => /\ inv[i].saved = Pending
                       /\ inv[i].result = Pending
                       /\ writer # i)
    /\ [][\A i \in Invocations :
             /\ (inv[i].pc = "fetch" /\ inv'[i] # inv[i])
                    => inv'[i].fetched \in {"rejected", "responded"}
             /\ (inv[i].pc = "json" /\ inv'[i] # inv[i])
                    => inv'[i].data.shape # "none"]_vars

C23_Witness ==
    /\ inv["c1"].pc = "returned"
    /\ inv["c1"].fetched = "responded"
    /\ inv["c1"].data.shape = "text"
    /\ inv["c2"].pc = "threw"
    /\ inv["c2"].fetched = "rejected"
    /\ inv["c2"].overlapped = {"c1"}

(***************************************************************************)
(* Fenced blocks and their language tags.                                  *)
(***************************************************************************)

\* The language tags of the texts: those the pattern lists and others.
AnyTags == RecognisedTags \cup {js, jsx, javascript}

\* The tag in T of the opening fence line that starts at i, if there is one.
TagsAt(T, s, i) == {t \in T : StartsWithAt(s, i + 3, t \o <<NL>>)}

\* The fences at i and j delimit a fenced block whose tag is in T.
IsBlockIn(T, s, i, j) ==
    /\ TagsAt(T, s, i) # {}
    /\ LET start == i + 3 + Len(CHOOSE t \in TagsAt(T, s, i) : TRUE) + 1
       IN  j - 1 >= start /\ s[j - 1] = NL

BlockContentIn(T, s, i, j) ==
    SubSeq(s, i + 3 + Len(CHOOSE t \in TagsAt(T, s, i) : TRUE) + 1, j - 2)

\* The number of fenced blocks with tags in T of a text whose fences pair up
\* into such blocks, one after the other; 0 for any other text.
BlockCountIn(T, s) ==
    LET M == FenceMarks(s)
        n == Cardinality(M) \div 2
    IN  IF /\ Cardinality(M) = 2 * n
           /\ \A k \in 1..n : IsBlockIn(T, s, Nth(M, 2 * k - 1), Nth(M, 2 * k))
        THEN n ELSE 0

\* The tags of the fenced blocks of such a text.
BlockTagsOf(T, s) ==
    LET M == FenceMarks(s)
    IN  UNION {TagsAt(T, s, Nth(M, 2 * k - 1)) : k \in 1..BlockCountIn(T, s)}

\* C24: for a text with two or more fenced blocks that do not all carry the
\* same language tag, the result is the content of the first fenced block of
\* the text, trimmed, whatever the tag of that block.
C24_FirstBlockAnyTag ==
    \A i \in Invocations :
        (Extracted(inv[i]) /\ BlockCountIn(AnyTags, inv[i].data.text) >= 2
              /\ Cardinality(BlockTagsOf(AnyTags, inv[i].data.text)) >= 2)
            => IsTrimOf(inv[i].code,
                        BlockContentIn(AnyTags, inv[i].data.text,
                                       Nth(FenceMarks(inv[i].data.text), 1),
                                       Nth(FenceMarks(inv[i].data.text), 2)))

\* C25: a text that is exactly one fenced block with a tag other than
\* typescript, tsx and ts is returned whole, fences and tag included; and the
\* result holds a fence only when the text has no fenced block with a
\* recognised tag or no tag: never when such a block was found.
C25_OtherTagNotABlock ==
    \A i \in Invocations :
        Extracted(inv[i])
            => /\ (\E tag \in AnyTags \ RecognisedTags : \E c \in BlockContents :
                       inv[i].data.text = FencedBlock(tag, c))
                      => /\ inv[i].code = inv[i].data.text
                         /\ NoBlock(inv[i].data.text)
               /\ FenceMarks(inv[i].code) # {} => NoBlock(inv[i].data.text)

C25_Witness ==
    /\ inv["c1"].pc = "generated"
    /\ inv["c1"].data.text = FencedBlock(jsx, <<"a">>)
    /\ inv["c1"].code = Fence \o jsx \o <<NL, "a", NL>> \o Fence

(***************************************************************************)
(* The prompt.                                                             *)
(***************************************************************************)

\* The theme of the options, modern when they carry none.
ThemeOf(o) == IF o.theme = None THEN "modern" ELSE o.theme[1]

\* C26: the prompt of a call, and the request if one is issued, are those
\* of every options value with the same appIdea and the same theme (modern
\* when omitted), whatever its features and apiKey; and building the prompt
\* issues no request of its own: a call holds at most the one request of
\* callGeminiAPI, and none without a credential.
C26_PromptOfIdeaAndTheme ==
    \A i \in Invocations :
        inv[i].pc # "idle"
            => /\ \A o \in OptionsSet :
                      (o.appIdea = inv[i].opts.appIdea /\ ThemeOf(o) = ThemeOf(inv[i].opts))
                          => /\ buildUIPrompt(o.appIdea, o) = inv[i].prompt
                             /\ inv[i].requests \in
                                    {<<>>, <<GeminiRequest(apiKey, buildUIPrompt(o.appIdea, o))>>}
               /\ inv[i].prompt[2] = inv[i].opts.appIdea
               /\ inv[i].prompt[4] = ThemeOf(inv[i].opts)
               /\ apiKey = Null => inv[i].requests = <<>>

C26_Witness ==
    /\ inv["c1"].pc = "fetch"
    /\ inv["c1"].opts = [appIdea |-> "issue tracker", theme |-> Some("modern"),
                         features |-> Some(<<"auth">>), apiKey |-> Some(OptKey)]
    /\ inv["c1"].requests
          = <<GeminiRequest(EnvKey,
                            buildUIPrompt("issue tracker",
                                          [NoOptions EXCEPT !.appIdea = "issue tracker"]))>>

(***************************************************************************)
(* Generation does not validate.                                           *)
(***************************************************************************)

\* C27: no step of generateUI runs or changes a validation, and the step
\* that writes, when the filesystem raises no error, writes exactly the text
\* that the generation returned and returns the path, also when that text
\* lacks required markers; a validation of the returned path may then fail.
C27_NoValidationInGenerate ==
    [][\A i \in Invocations :
          inv'[i] # inv[i]
              => /\ val' = val
                 /\ inv'[i].pc \in Finished
                        => /\ inv'[i].code = inv[i].code
                           /\ inv'[i].fault = "none"
                                  => /\ inv'[i].pc = "returned"
                                     /\ inv'[i].result = Returned(outputPath)
                                     /\ file' = Some(inv[i].code)]_vars

C27_Witness ==
    /\ inv["c1"].pc = "returned"
    /\ inv["c1"].via = "model"
    /\ MissingFrom(inv["c1"].code) = {ConsoleLogText}
    /\ file = Some(inv["c1"].code)
    /\ HasRead("v1")
    /\ val["v1"].path = inv["c1"].result.value
    /\ val["v1"].read = file
    /\ val["v1"].returned = Some(FALSE)

====
